---------------------------- MODULE Spec2Model ----------------------------
(***************************************************************************)
(* Model of deltachat_rpc_client/rpc.py: the class Rpc, a JSON-RPC         *)
(* transport over the stdin/stdout pipes of a child process.               *)
(*                                                                         *)
(* The program is single-threaded asyncio code: a coroutine runs without   *)
(* interruption from one await that suspends to the next, so every action  *)
(* below is the code between two suspension points.  The suspension points *)
(* of the source are readline() (line 54), the await of the response       *)
(* future (line 95), Queue.get() on an empty queue (line 74), the await of *)
(* the reader task (line 43) and create_subprocess_exec (line 29).         *)
(* Queue.put() on the unbounded asyncio.Queue of line 66 never suspends.   *)
(*                                                                         *)
(* The child process is the environment: it may write any line to its      *)
(* stdout while it is alive and may exit at any time.  The reader loop is  *)
(* the only reader of the pipe, so the lines are processed in the order    *)
(* they were written; a reader action takes the next line of the wire as   *)
(* its input.                                                              *)
(***************************************************************************)
EXTENDS Integers, Sequences, FiniteSets, TLC

(***************************************************************************)
(* Bounds of the model.                                                    *)
(***************************************************************************)
NCallers == 2      \* tasks that each issue one remote call
NConsumers == 2    \* tasks that call wait_for_event
MaxEvents == 3     \* event notifications read in a run

Callers == 1..NCallers
Consumers == 1..NConsumers
Accounts == {5, 7}
RespIds == 1..NCallers

(***************************************************************************)
(* JSON values.  Absent is a missing key, None is JSON null / Python None. *)
(***************************************************************************)
Absent == "absent"
None == "None"

\* The (error, result) parts of the response objects the child sends.
Bodies ==
    { [error |-> Absent, result |-> "r1"],
      [error |-> Absent, result |-> None],
      [error |-> "e1",   result |-> Absent],
      [error |-> "e1",   result |-> "r1"],
      [error |-> Absent, result |-> Absent] }

\* One line of the child's stdout, as json.loads sees it.  wf is FALSE for a
\* line that is not JSON; method is Absent when the object has no "method".
Line(wf, hasId, i, m, a, e, err, res) ==
    [wf |-> wf, hasId |-> hasId, id |-> i, method |-> m,
     account |-> a, event |-> e, error |-> err, result |-> res]

ResponseLine(i, b) == Line(TRUE, TRUE, i, Absent, 0, 0, b.error, b.result)
EventLine(a, e) == Line(TRUE, FALSE, 0, "event", a, e, Absent, Absent)
OtherLine(m) == Line(TRUE, FALSE, 0, m, 0, 0, Absent, Absent)
\* An object with both "id" and "method": "event" (and params)
IdEventLine(i, a, e) == Line(TRUE, TRUE, i, "event", a, e, Absent, Absent)
GarbageLine == Line(FALSE, FALSE, 0, Absent, 0, 0, Absent, Absent)
NoResponse == Line(FALSE, FALSE, 0, Absent, 0, 0, Absent, Absent)

EmptyMap == [k \in {} |-> 0]

VARIABLES
    proc,            \* the child: "none" (never started), "alive", "exited"
    sigterm,         \* terminate() has signalled the current child
    lifecycle,       \* "unstarted", "running", "closing", "closed"
    id,              \* self.id
    request_events,  \* self.request_events: request id -> future (its caller)
    event_queues,    \* self.event_queues: account id -> queue contents
    reader,          \* self.reader_task: "none", "running", "done", "failed"
    readerErr,       \* the exception the reader task ended with
    printed,         \* the line the reader loop print()ed last
    stdin,           \* request lines passed to stdin.write of the current child
    pc,              \* caller: "idle", "awaiting", "returned", "raised", "cancelled"
    request_id,      \* caller's local request_id
    fut,             \* caller's future: "none", "pending", "done", "cancelled"
    resolved,        \* number of times set_result succeeded on the future
    response,        \* result of the caller's future
    outcome,         \* what the call returned or raised
    evpc,            \* consumer: "idle", "waiting", "orphaned"
    evAcc,           \* account_id of the consumer's suspended wait_for_event
    lastWait,        \* the latest wait_for_event call: its account, whether a
                     \* queue existed and held an item, and what the call did
    serial,          \* number of event notifications read so far
    arrived,         \* per account, events read from the wire since start()
    yielded          \* per account, events wait_for_event returned since start()

procVars == <<proc, sigterm, lifecycle>>
rpcVars == <<id, request_events, event_queues, reader, readerErr, printed>>
callVars == <<pc, request_id, fut, resolved, response, outcome>>
evVars == <<evpc, evAcc, lastWait>>
logVars == <<serial, arrived, yielded>>
vars == <<procVars, rpcVars, stdin, callVars, evVars, logVars>>

NoOutcome == [exc |-> "none", value |-> None]
NoWait == [acc |-> 0, hadQueue |-> FALSE, hadItem |-> FALSE, did |-> "none", ev |-> 0]
Waited(a, eq, did, ev) ==
    [acc |-> a, hadQueue |-> a \in DOMAIN eq,
     hadItem |-> a \in DOMAIN eq /\ eq[a] # <<>>, did |-> did, ev |-> ev]

Init ==
    /\ proc = "none" /\ sigterm = FALSE /\ lifecycle = "unstarted"
    /\ id = 0 /\ request_events = EmptyMap /\ event_queues = EmptyMap
    /\ reader = "none" /\ readerErr = "none" /\ printed = NoResponse
    /\ stdin = <<>>
    /\ pc = [c \in Callers |-> "idle"]
    /\ request_id = [c \in Callers |-> 0]
    /\ fut = [c \in Callers |-> "none"]
    /\ resolved = [c \in Callers |-> 0]
    /\ response = [c \in Callers |-> NoResponse]
    /\ outcome = [c \in Callers |-> NoOutcome]
    /\ evpc = [k \in Consumers |-> "idle"]
    /\ evAcc = [k \in Consumers |-> 0]
    /\ lastWait = NoWait
    /\ serial = 0
    /\ arrived = [a \in Accounts |-> <<>>]
    /\ yielded = [a \in Accounts |-> <<>>]


(***************************************************************************)
(* Helpers: the expressions of the source the actions are built from.      *)
(***************************************************************************)
\* Faulty variant of NextId: the counter advances only from its initial value.
NextId_stuck(n) == IF n = 0 THEN 1 ELSE n

\* line 79: self.id += 1
NextId(n) == n + 1

\* line 87: "params": kwargs or args
Params(style) == IF style = "named" THEN "object" ELSE "array"

\* Faulty variant of ArgsAccepted: the assertion of line 82 is left out.
ArgsAccepted_any(style) == TRUE

\* Faulty variant of WriteLine: the data is put in front of what is buffered.
WriteLine_front(buf, req) == <<req>> \o buf

\* lines 90-91: data is the whole request object and its newline, passed to
\* one stdin.write() call; the transport sends or buffers the data of the
\* write() calls in the order of the calls.
WriteLine(buf, req) == Append(buf, req)

\* line 82: assert not (args and kwargs)
ArgsAccepted(style) == style # "both"

\* Faulty variant of ReaderTaskDone: close() does not wait for the reader task.
ReaderTaskDone_noWait(r) == TRUE

\* line 43: await self.reader_task resumes once the task has ended
ReaderTaskDone(r) == r \in {"done", "failed"}

\* Faulty variant of EndOfStream: the empty read is not recognised.
EndOfStream_missed(bytes) == FALSE

\* line 55: if not line -- the bytes readline() returned are empty
EndOfStream(bytes) == bytes = <<>>

\* Faulty variant of Route: the method is tested before the id.
Route_methodFirst(l) ==
    IF ~l.wf THEN "JSONDecodeError"
    ELSE IF l.method = "event" THEN "event"
    ELSE IF l.hasId THEN "response"
    ELSE IF l.method = Absent THEN "KeyError_method"
    ELSE "other"

\* lines 57-69: which branch of the reader loop a line takes
Route(l) ==
    IF ~l.wf THEN "JSONDecodeError"                   \* json.loads raises
    ELSE IF l.hasId THEN "response"                   \* "id" in response
    ELSE IF l.method = Absent THEN "KeyError_method"  \* response["method"] raises
    ELSE IF l.method = "event" THEN "event"
    ELSE "other"

\* Faulty variant of PopKey: responses are taken to arrive in send order, the
\* oldest pending entry is popped whatever id the line carries.
PopKey_oldest(reg, l) ==
    IF DOMAIN reg = {} THEN l.id
    ELSE CHOOSE i \in DOMAIN reg : \A j \in DOMAIN reg : i <= j

\* line 59: the key self.request_events.pop() is called with
PopKey(reg, l) == l.id

\* Faulty variant of Popped: the entry is looked up and left in the registry.
Popped_kept(reg, key) == reg

\* Faulty variant of Popped: a response empties the registry.
Popped_all(reg, key) == EmptyMap

\* line 59: the registry after pop(key)
Popped(reg, key) == [i \in DOMAIN reg \ {key} |-> reg[i]]

\* Faulty variant of Registered: the future is not put in the registry.
Registered_none(reg, key, c) == reg

\* line 94: self.request_events[request_id] = fut
Registered(reg, key, c) == (key :> c) @@ reg

\* Faulty variant of HasQueue: an empty queue counts as no queue.
HasQueue_nonEmpty(eq, a) == a \in DOMAIN eq /\ eq[a] # <<>>

\* line 73: account_id in self.event_queues
HasQueue(eq, a) == a \in DOMAIN eq

\* Faulty variant of Enqueued: the event is put at the head of the queue.
Enqueued_atHead(eq, a, e) ==
    IF a \in DOMAIN eq THEN [eq EXCEPT ![a] = <<e>> \o @]
    ELSE (a :> <<e>>) @@ eq

\* Faulty variant of Enqueued: one queue's worth of events for all accounts,
\* the event is put on every queue there is.
Enqueued_broadcast(eq, a, e) ==
    IF a \in DOMAIN eq THEN [b \in DOMAIN eq |-> Append(eq[b], e)]
    ELSE (a :> <<e>>) @@ [b \in DOMAIN eq |-> Append(eq[b], e)]

\* lines 65-67: create the queue if absent, then put the event at its tail
Enqueued(eq, a, e) ==
    IF a \in DOMAIN eq THEN [eq EXCEPT ![a] = Append(@, e)]
    ELSE (a :> <<e>>) @@ eq

\* Faulty variant of QueueRest: get() returns the oldest item and leaves it
\* in the queue.
QueueRest_peek(q) == q

\* line 74: Queue.get() takes the oldest item
QueueFront(q) == Head(q)
QueueRest(q) == Tail(q)

\* Faulty variant of CallOutcome: "result" is tested before "error".
CallOutcome_resultFirst(r) ==
    IF r.result # Absent THEN [exc |-> "none", value |-> r.result]
    ELSE IF r.error # Absent THEN [exc |-> "JsonRpcError", value |-> r.error]
    ELSE [exc |-> "none", value |-> None]

\* lines 96-99: what the call does with the response it resumed with
CallOutcome(r) ==
    IF r.error # Absent THEN [exc |-> "JsonRpcError", value |-> r.error]
    ELSE IF r.result # Absent THEN [exc |-> "none", value |-> r.result]
    ELSE [exc |-> "none", value |-> None]

(***************************************************************************)
(* Lifecycle: start() and close().                                         *)
(***************************************************************************)
\* lines 28-38.  The body after the await of create_subprocess_exec runs in
\* one step.  start() is modelled on a transport that was never started or
\* whose close() has finished: no reader task of the instance is alive then.
\* It replaces the process, the counter and both dicts; callers and consumers
\* suspended on a future or a queue of the replaced dicts are never woken.
Start ==
    /\ lifecycle \in {"unstarted", "closed"}
    /\ proc' = "alive"
    /\ sigterm' = FALSE
    /\ lifecycle' = "running"
    /\ id' = 0
    /\ event_queues' = EmptyMap
    /\ request_events' = EmptyMap
    /\ reader' = "running"
    /\ readerErr' = "none"
    /\ stdin' = <<>>
    /\ evpc' = [k \in Consumers |-> IF evpc[k] = "waiting" THEN "orphaned" ELSE evpc[k]]
    /\ arrived' = [a \in Accounts |-> <<>>]
    /\ yielded' = [a \in Accounts |-> <<>>]
    /\ UNCHANGED <<printed, callVars, evAcc, lastWait, serial>>

\* lines 40-42: close() up to its await.  terminate() raises, before
\* anything has changed, when called before start() (self.process is then the
\* closure __getattr__ returns: AttributeError) or once asyncio has finished
\* the transport of an exited child (ProcessLookupError); such a call changes
\* no state and is no step of the model.  On a child that has exited and is
\* not yet finished, terminate() returns without signalling.
CloseBegin ==
    /\ lifecycle \in {"running", "closed"}
    /\ sigterm' = TRUE
    /\ lifecycle' = "closing"
    /\ UNCHANGED <<proc, rpcVars, stdin, callVars, evVars, logVars>>

\* line 43: await self.reader_task returns once the reader task has ended
\* (an exception the task ended with is re-raised to the caller of close()).
CloseFinish ==
    /\ lifecycle = "closing"
    /\ ReaderTaskDone(reader)
    /\ lifecycle' = "closed"
    /\ UNCHANGED <<proc, sigterm, rpcVars, stdin, callVars, evVars, logVars>>

(***************************************************************************)
(* The child process (environment).                                        *)
(***************************************************************************)
\* The child exits: after SIGTERM, or on its own.
ChildExit ==
    /\ proc = "alive"
    /\ proc' = "exited"
    /\ UNCHANGED <<sigterm, lifecycle, rpcVars, stdin, callVars, evVars, logVars>>

(***************************************************************************)
(* reader_loop, lines 52-69.  One action per line read: nothing between    *)
(* two readline() calls suspends.                                          *)
(***************************************************************************)
\* line 54: readline() returns a line the child wrote while it was alive
ReaderReady == reader = "running" /\ proc = "alive"

\* lines 58-60: pop raises KeyError(id) for an unknown id; set_result raises
\* InvalidStateError on a future that is no longer pending (the entry has
\* been popped by then).  Either exception ends the reader task.
ReaderResponse(l) ==
    /\ ReaderReady
    /\ Route(l) = "response"
    /\ LET key == PopKey(request_events, l)
       IN IF key \notin DOMAIN request_events
          THEN /\ reader' = "failed"
               /\ readerErr' = "KeyError_id"
               /\ UNCHANGED <<request_events, fut, resolved, response>>
          ELSE LET c == request_events[key]
               IN /\ request_events' = Popped(request_events, key)
                  /\ IF fut[c] = "pending"
                     THEN /\ fut' = [fut EXCEPT ![c] = "done"]
                          /\ response' = [response EXCEPT ![c] = l]
                          /\ resolved' = [resolved EXCEPT ![c] = @ + 1]
                          /\ UNCHANGED <<reader, readerErr>>
                     ELSE /\ reader' = "failed"
                          /\ readerErr' = "InvalidStateError"
                          /\ UNCHANGED <<fut, resolved, response>>
    /\ UNCHANGED <<procVars, id, event_queues, printed, stdin,
                   pc, request_id, outcome, evVars, logVars>>

\* lines 61-67.  The events of a run are numbered in wire order.
ReaderEvent(l) ==
    /\ ReaderReady
    /\ Route(l) = "event"
    /\ serial < MaxEvents
    /\ l.event = serial + 1
    /\ serial' = serial + 1
    /\ event_queues' = Enqueued(event_queues, l.account, l.event)
    /\ arrived' = [arrived EXCEPT ![l.account] = Append(@, l.event)]
    /\ UNCHANGED <<procVars, id, request_events, reader, readerErr, printed,
                   stdin, callVars, evVars, yielded>>

\* lines 68-69: print(response)
ReaderOther(l) ==
    /\ ReaderReady
    /\ Route(l) = "other"
    /\ printed' = l
    /\ UNCHANGED <<procVars, id, request_events, event_queues, reader, readerErr,
                   stdin, callVars, evVars, logVars>>

\* line 57: json.loads raises on a line that is not JSON; line 61:
\* response["method"] raises KeyError('method') on an object without "method".
ReaderRaise(l) ==
    /\ ReaderReady
    /\ Route(l) \in {"JSONDecodeError", "KeyError_method"}
    /\ reader' = "failed"
    /\ readerErr' = Route(l)
    /\ UNCHANGED <<procVars, id, request_events, event_queues, printed,
                   stdin, callVars, evVars, logVars>>

\* lines 54-57: readline() returns b"" once the child has exited and its
\* output is drained.  The test of line 55 breaks out of the loop and the task
\* ends normally; a line that passed it would go to json.loads, which raises
\* on b"".
ReaderEOF ==
    /\ reader = "running"
    /\ proc = "exited"
    /\ IF EndOfStream(<<>>)
       THEN reader' = "done" /\ readerErr' = readerErr
       ELSE reader' = "failed" /\ readerErr' = "JSONDecodeError"
    /\ UNCHANGED <<procVars, id, request_events, event_queues, printed,
                   stdin, callVars, evVars, logVars>>

(***************************************************************************)
(* __getattr__.method, lines 78-99.                                        *)
(***************************************************************************)
ArgStyles == {"positional", "named", "both"}

\* lines 79-95, up to the await.  Before start() self.id is the closure
\* __getattr__ returns and += raises TypeError.  stdin.write never raises:
\* on a pipe whose child has exited the transport drops the data, so stdin
\* records the write calls, delivered or not.
Call(c, style) ==
    /\ pc[c] = "idle"
    /\ IF proc = "none"
       THEN /\ pc' = [pc EXCEPT ![c] = "raised"]
            /\ outcome' = [outcome EXCEPT ![c] = [exc |-> "TypeError", value |-> None]]
            /\ UNCHANGED <<id, request_id, request_events, fut, stdin>>
       ELSE /\ id' = NextId(id)
            /\ request_id' = [request_id EXCEPT ![c] = id']
            /\ IF ~ArgsAccepted(style)
               THEN /\ pc' = [pc EXCEPT ![c] = "raised"]
                    /\ outcome' = [outcome EXCEPT ![c] =
                                      [exc |-> "AssertionError", value |-> None]]
                    /\ UNCHANGED <<request_events, fut, stdin>>
               ELSE /\ stdin' = WriteLine(stdin, [id |-> id', params |-> Params(style)])
                    /\ fut' = [fut EXCEPT ![c] = "pending"]
                    /\ request_events' = Registered(request_events, id', c)
                    /\ pc' = [pc EXCEPT ![c] = "awaiting"]
                    /\ UNCHANGED outcome
    /\ UNCHANGED <<procVars, event_queues, reader, readerErr, printed,
                   resolved, response, evVars, logVars>>

\* Faulty variant of Resumable: calls resume in the order they were sent, a
\* resolved call waits for every call sent before it that is still pending.
Resumable_inOrder(c) ==
    /\ fut[c] = "done"
    /\ \A d \in Callers : fut[d] = "pending" => request_id[d] > request_id[c]

\* line 95: await fut resumes once this call's own future is done
Resumable(c) == fut[c] = "done"

\* lines 95-99: the caller resumes with the result of its future
CallResume(c) ==
    /\ pc[c] = "awaiting"
    /\ Resumable(c)
    /\ outcome' = [outcome EXCEPT ![c] = CallOutcome(response[c])]
    /\ pc' = [pc EXCEPT ![c] = IF outcome'[c].exc = "none" THEN "returned" ELSE "raised"]
    /\ UNCHANGED <<procVars, rpcVars, stdin, request_id, fut, resolved,
                   response, evVars, logVars>>

\* line 95: the task is cancelled while it awaits; Task.cancel() cancels the
\* future it waits on when that is still pending.  The method has no
\* try/finally: the registry entry stays.
Cancel(c) ==
    /\ pc[c] = "awaiting"
    /\ pc' = [pc EXCEPT ![c] = "cancelled"]
    /\ outcome' = [outcome EXCEPT ![c] = [exc |-> "CancelledError", value |-> None]]
    /\ fut' = [fut EXCEPT ![c] = IF @ = "pending" THEN "cancelled" ELSE @]
    /\ UNCHANGED <<procVars, rpcVars, stdin, request_id, resolved,
                   response, evVars, logVars>>

(***************************************************************************)
(* wait_for_event, lines 71-75.                                            *)
(***************************************************************************)
\* Before start() self.event_queues is the closure __getattr__ returns and
\* the "in" test raises TypeError.  Queue.get() returns at once when the
\* queue holds an item and suspends when it is empty.
WaitForEvent(k, a) ==
    /\ evpc[k] = "idle"
    /\ IF proc = "none"
       THEN /\ lastWait' = Waited(a, event_queues, "TypeError", 0)
            /\ UNCHANGED <<evpc, evAcc, event_queues, yielded>>
       ELSE IF ~HasQueue(event_queues, a)
       THEN /\ lastWait' = Waited(a, event_queues, "absent", 0)
            /\ UNCHANGED <<evpc, evAcc, event_queues, yielded>>
       ELSE IF event_queues[a] # <<>>
       THEN /\ lastWait' = Waited(a, event_queues, "event", QueueFront(event_queues[a]))
            /\ event_queues' = [event_queues EXCEPT ![a] = QueueRest(@)]
            /\ yielded' = [yielded EXCEPT ![a] = Append(@, QueueFront(event_queues[a]))]
            /\ UNCHANGED <<evpc, evAcc>>
       ELSE /\ lastWait' = Waited(a, event_queues, "suspended", 0)
            /\ evpc' = [evpc EXCEPT ![k] = "waiting"]
            /\ evAcc' = [evAcc EXCEPT ![k] = a]
            /\ UNCHANGED <<event_queues, yielded>>
    /\ UNCHANGED <<procVars, id, request_events, reader, readerErr, printed,
                   stdin, callVars, serial, arrived>>

\* line 74: a consumer suspended in Queue.get() resumes with the oldest item
GetResume(k) ==
    /\ evpc[k] = "waiting"
    /\ evAcc[k] \in DOMAIN event_queues
    /\ event_queues[evAcc[k]] # <<>>
    /\ LET a == evAcc[k]
       IN /\ event_queues' = [event_queues EXCEPT ![a] = QueueRest(@)]
          /\ yielded' = [yielded EXCEPT ![a] = Append(@, QueueFront(event_queues[a]))]
    /\ evpc' = [evpc EXCEPT ![k] = "idle"]
    /\ evAcc' = [evAcc EXCEPT ![k] = 0]
    /\ UNCHANGED <<procVars, id, request_events, reader, readerErr, printed,
                   stdin, callVars, lastWait, serial, arrived>>

(***************************************************************************)
(* Specifications.  Spec is the call side: callers, responses, lifecycle.  *)
(* SpecOne runs one caller over every response body and argument style.    *)
(* SpecEv is the event side: consumers and event notifications, with one   *)
(* caller whose response interleaves with the events.  SpecRoute is the    *)
(* reader loop over every kind of line.  SpecLive is Spec with the event   *)
(* loop's scheduling of resumable callers.  SpecCoop is one run of the     *)
(* transport with a child that answers only the requests it was sent.      *)
(***************************************************************************)
Lifecycle == Start \/ CloseBegin \/ CloseFinish \/ ChildExit \/ ReaderEOF

\* The lines of the wire: the child may answer any id, sent or not.
ResponseLines(ids, bodies) == {ResponseLine(i, b) : i \in ids, b \in bodies}
EventLines == {EventLine(a, e) : a \in Accounts, e \in 1..MaxEvents}
RouteLines == {OtherLine("other"), OtherLine(Absent), GarbageLine}

SpecBodies == { [error |-> Absent, result |-> "r1"], [error |-> "e1", result |-> Absent] }
SpecStyles == {"positional", "both"}

Next ==
    \/ Lifecycle
    \/ \E l \in ResponseLines(RespIds, SpecBodies) : ReaderResponse(l)
    \/ \E c \in Callers, s \in SpecStyles : Call(c, s)
    \/ \E c \in Callers : CallResume(c)
    \/ \E c \in Callers : Cancel(c)

Spec == Init /\ [][Next]_vars

NextOne ==
    \/ Lifecycle
    \/ \E l \in ResponseLines({1}, Bodies) : ReaderResponse(l)
    \/ \E s \in ArgStyles : Call(1, s)
    \/ CallResume(1)
    \/ Cancel(1)

\* Spec with the scheduling of the asyncio event loop: a task whose future
\* is done is put on the loop's ready queue, which is run in FIFO order, so
\* a caller that can resume does.  Nothing obliges the child to answer.
SpecLive == Init /\ [][Next]_vars /\ \A c \in Callers : WF_vars(CallResume(c))

SpecOne == Init /\ [][NextOne]_vars

\* One run of the transport with a child that keeps to the protocol: start()
\* once, and the child answers only requests that were written to its stdin,
\* each at most once (a request that was answered has a resolved future, or
\* its answer ended the reader task).
StdinIds == {stdin[j].id : j \in 1..Len(stdin)}
StartOnce == lifecycle = "unstarted" /\ Start
CoopResponse(l) ==
    /\ l.id \in StdinIds
    /\ ~\E c \in Callers : request_id[c] = l.id /\ resolved[c] > 0
    /\ ReaderResponse(l)

NextCoop ==
    \/ StartOnce \/ CloseBegin \/ CloseFinish \/ ChildExit \/ ReaderEOF
    \/ \E l \in ResponseLines(RespIds, SpecBodies) : CoopResponse(l)
    \/ \E c \in Callers, s \in SpecStyles : Call(c, s)
    \/ \E c \in Callers : CallResume(c)
    \/ \E c \in Callers : Cancel(c)

SpecCoop == Init /\ [][NextCoop]_vars

EvBody == [error |-> Absent, result |-> "r1"]

NextEv ==
    \/ Lifecycle
    \/ \E l \in EventLines : ReaderEvent(l)
    \/ ReaderResponse(ResponseLine(1, EvBody))
    \/ Call(1, "named")
    \/ \E k \in Consumers, a \in Accounts : WaitForEvent(k, a)
    \/ \E k \in Consumers : GetResume(k)

SpecEv == Init /\ [][NextEv]_vars

\* Every kind of line, offered to every branch of the reader loop.
IdEventLines == {IdEventLine(i, a, e) : i \in {1, 2}, a \in Accounts, e \in 1..MaxEvents}
WireLines == ResponseLines({1, 2}, {EvBody}) \cup EventLines \cup RouteLines \cup IdEventLines

NextRoute ==
    \/ Lifecycle
    \/ \E l \in WireLines : ReaderResponse(l)
    \/ \E l \in WireLines : ReaderEvent(l)
    \/ \E l \in WireLines : ReaderOther(l)
    \/ \E l \in WireLines : ReaderRaise(l)
    \/ Call(1, "positional")
    \/ CallResume(1)

SpecRoute == Init /\ [][NextRoute]_vars

(***************************************************************************)
(* Properties.                                                             *)
(***************************************************************************)
IsPrefix(p, q) == Len(p) <= Len(q) /\ \A j \in 1..Len(p) : p[j] = q[j]
Written(c) == fut[c] # "none"
Resumed(c) == pc[c] \in {"returned", "raised"} /\ fut[c] = "done"

\* C1: every call whose future is resolved, and every call that has resumed,
\* holds the response object whose id is the id the call was assigned when it
\* wrote its request, whatever the order the responses arrived in.
C1_Correlation ==
    \A c \in Callers :
        fut[c] = "done" =>
            /\ response[c].hasId
            /\ response[c].id = request_id[c]
            /\ resolved[c] = 1

\* C1 witness: two calls are outstanding and the later one was answered first.
C1_Witness ==
    \E c, d \in Callers :
        /\ request_id[c] = 1 /\ request_id[d] = 2
        /\ pc[c] = "awaiting" /\ fut[c] = "pending"
        /\ Resumed(d) /\ response[d].id = 2

\* C2: for every account, the events wait_for_event has yielded are, in
\* order, the first events read from the wire for that account: an event read
\* earlier is yielded earlier, whatever was read in between.
C2_EventOrder ==
    \A a \in Accounts : IsPrefix(yielded[a], arrived[a])

\* C2 witness: account 5 yielded events 1 and 3 in that order, event 2 was
\* read for account 7 between them and a response was read as well.
C2_Witness ==
    /\ yielded[5] = <<1, 3>>
    /\ arrived[7] = <<2>>
    /\ fut[1] = "done"

C4_ResolvedOnce ==
    /\ [](\A c \in Callers : resolved[c] <= 1)
    /\ [](\A i \in DOMAIN request_events : fut[request_events[i]] # "done")
    /\ [][\A c \in Callers :
            resolved'[c] # resolved[c] =>
                /\ fut[c] = "pending" /\ resolved[c] = 0
                /\ request_id[c] \in DOMAIN request_events
                /\ request_id[c] \notin DOMAIN request_events']_vars
    /\ [][(reader = "running" /\ readerErr' = "KeyError_id") =>
            (reader' = "failed" /\ resolved' = resolved /\ response' = response
             /\ fut' = fut)]_vars

\* C4 witness: a call was resolved and a later response line found no entry.
C4_Witness ==
    \E c \in Callers :
        /\ fut[c] = "done" /\ resolved[c] = 1
        /\ readerErr = "KeyError_id"
        /\ request_events = EmptyMap

\* C5: a call that resumed with a response holding "error" raised
\* JsonRpcError with that error value; with "result" and no "error" it
\* returned the result value; with neither it returned None.
C5_Outcome ==
    \A c \in Callers :
        Resumed(c) =>
            LET r == response[c]
            IN /\ r.error # Absent =>
                    pc[c] = "raised" /\ outcome[c] = [exc |-> "JsonRpcError", value |-> r.error]
               /\ (r.error = Absent /\ r.result # Absent) =>
                    pc[c] = "returned" /\ outcome[c] = [exc |-> "none", value |-> r.result]
               /\ (r.error = Absent /\ r.result = Absent) =>
                    pc[c] = "returned" /\ outcome[c] = [exc |-> "none", value |-> None]

\* C5 witness: a response holding both "error" and "result" made the call raise.
C5_Witness ==
    /\ Resumed(1)
    /\ response[1].error = "e1" /\ response[1].result = "r1"
    /\ outcome[1] = [exc |-> "JsonRpcError", value |-> "e1"]

\* C6 as stated: over the life of the instance, restarts included, the id of
\* every request written is greater than the id of every request written
\* before it.
C6_Orig ==
    [][\A c \in Callers :
        (~Written(c) /\ Written(c)') =>
            \A d \in Callers : Written(d) => request_id'[c] > request_id[d]]_vars

\* C6 amended: between one start() and the next, the ids of the requests
\* written are strictly increasing in write order, calls that failed after
\* taking an id included, and none exceeds the counter.
C6_SessionIds ==
    /\ \A j, k \in 1..Len(stdin) : j < k => stdin[j].id < stdin[k].id
    /\ \A j \in 1..Len(stdin) : 1 <= stdin[j].id /\ stdin[j].id <= id

\* C6 witness: a call that mixed its arguments took id 1 and wrote nothing,
\* and the next call wrote id 2.
C6_Witness ==
    \E c, d \in Callers :
        /\ pc[c] = "raised" /\ outcome[c].exc = "AssertionError" /\ request_id[c] = 1
        /\ pc[d] = "awaiting" /\ request_id[d] = 2
        /\ stdin = <<[id |-> 2, params |-> "array"]>>

\* C7 as stated: a call issued while the transport is not RUNNING raises at
\* the call site.
C7_Orig ==
    [][\A c \in Callers :
        (pc[c] = "idle" /\ pc'[c] # "idle" /\ lifecycle # "running") =>
            pc'[c] = "raised"]_vars

\* C8: once close() has finished, the terminate signal has been sent and the
\* reader task has ended, and for as long as the transport stays closed no
\* future is resolved, no event is enqueued and nothing is printed.
C8_CloseWaits ==
    /\ [](lifecycle = "closed" => (sigterm /\ reader \in {"done", "failed"}))
    /\ [](lifecycle = "closing" => sigterm)
    /\ [][(lifecycle = "closed" /\ lifecycle' = "closed") =>
            /\ reader' = reader
            /\ resolved' = resolved
            /\ \A c \in Callers : fut'[c] = "done" => fut[c] = "done"
            /\ arrived' = arrived /\ printed' = printed]_vars

\* C8 witness: close() has finished after the reader read end-of-stream, with
\* a call still pending and an event still queued.
C8_Witness ==
    /\ lifecycle = "closed" /\ reader = "done"
    /\ fut[1] = "pending" /\ 1 \in DOMAIN request_events
    /\ \E a \in DOMAIN event_queues : event_queues[a] # <<>>

\* C9 as stated: when the reader pops the entry of a cancelled call, it keeps
\* running.
C9_Orig ==
    [][\A i \in DOMAIN request_events :
        (/\ reader = "running"
         /\ fut[request_events[i]] = "cancelled"
         /\ i \notin DOMAIN request_events') => reader' = "running"]_vars

\* C10 as stated: whenever the reader loop reads a line that has no id and is
\* not an event notification (its method is absent or is not "event"), it
\* prints the line and keeps running, and the registry, the futures and the
\* event queues are unchanged.
C10_Orig ==
    [][\A l \in {OtherLine("other"), OtherLine(Absent)} :
        (ReaderOther(l) \/ ReaderRaise(l)) =>
            /\ reader' = "running"
            /\ printed' = l
            /\ UNCHANGED <<request_events, fut, event_queues>>]_vars

\* C11: a call that passes both positional and named arguments raises at the
\* call site, in the step that makes it; that step writes nothing to stdin,
\* registers nothing, creates no future, and leaves the reader, the event
\* queues and the process as they were (the id counter may advance).
C11_MixedArgsRejected ==
    [][\A c \in Callers :
        Call(c, "both") =>
            /\ pc'[c] = "raised"
            /\ outcome'[c].exc \in {"AssertionError", "TypeError"}
            /\ stdin' = stdin
            /\ request_events' = request_events
            /\ fut' = fut
            /\ UNCHANGED <<procVars, event_queues, reader, readerErr>>]_vars

\* C11 witness: on a running transport a call with mixed arguments has
\* raised AssertionError; the counter advanced, nothing was written or
\* registered.
C11_Witness ==
    \E c \in Callers :
        /\ lifecycle = "running"
        /\ pc[c] = "raised" /\ outcome[c].exc = "AssertionError"
        /\ request_id[c] = 1 /\ id = 1
        /\ stdin = <<>> /\ request_events = EmptyMap /\ fut[c] = "none"

\* C12: the step in which the reader loop reads end-of-stream, after close()
\* or after the child exited on its own, ends the reader task without an
\* exception and changes nothing else: the registry, every future, the
\* resolution counts and the event queues are as before, and no caller
\* moves.  A reader task that has ended normally carries no exception.
C12_EofLeavesPending ==
    /\ [][(reader = "running" /\ proc = "exited" /\ reader' # "running") =>
            /\ reader' = "done" /\ readerErr' = "none"
            /\ UNCHANGED <<request_events, fut, resolved, response, pc, outcome>>
            /\ UNCHANGED event_queues]_vars
    /\ [](reader = "done" => readerErr = "none")

\* C12 witness: the child exited without close(), the reader read
\* end-of-stream and ended normally; a call is still pending in the registry
\* and an event is still queued.
C12_Witness ==
    /\ lifecycle = "running" /\ ~sigterm /\ proc = "exited"
    /\ reader = "done" /\ readerErr = "none"
    /\ pc[1] = "awaiting" /\ fut[1] = "pending"
    /\ 1 \in DOMAIN request_events /\ request_events[1] = 1
    /\ \E a \in DOMAIN event_queues : event_queues[a] # <<>>

SameQueue(b) ==
    /\ (b \in DOMAIN event_queues') <=> (b \in DOMAIN event_queues)
    /\ b \in DOMAIN event_queues => event_queues'[b] = event_queues[b]

\* C14: a step that enqueues an event for account a, and a wait_for_event(a)
\* step (returning at once, suspending, or resuming from suspension), leaves
\* the queue of every other account as it was.  A wait_for_event(b) made
\* while b's queue holds an item returns the oldest item of that queue in
\* the same step, whichever consumers are suspended on other accounts.
C14_QueuesIndependent ==
    /\ [][\A l \in EventLines :
            ReaderEvent(l) => \A b \in Accounts \ {l.account} : SameQueue(b)]_vars
    /\ [][\A k \in Consumers, a \in Accounts :
            (WaitForEvent(k, a) \/ (GetResume(k) /\ evAcc[k] = a)) =>
                \A b \in Accounts \ {a} : SameQueue(b)]_vars
    /\ [][\A k \in Consumers, b \in Accounts :
            (/\ WaitForEvent(k, b)
             /\ proc # "none"
             /\ b \in DOMAIN event_queues
             /\ event_queues[b] # <<>>) =>
                /\ lastWait'.did = "event"
                /\ lastWait'.ev = Head(event_queues[b])
                /\ evpc'[k] = "idle"
                /\ event_queues'[b] = Tail(event_queues[b])]_vars

\* C14 witness: a consumer is suspended on the empty queue of account 5;
\* after it suspended, a wait_for_event(7) returned the oldest of the events
\* buffered for account 7, and the rest of that queue is still there.
C14_Witness ==
    \E k \in Consumers :
        /\ evpc[k] = "waiting" /\ evAcc[k] = 5
        /\ 5 \in DOMAIN event_queues /\ event_queues[5] = <<>>
        /\ lastWait.acc = 7 /\ lastWait.did = "event" /\ lastWait.ev = 2
        /\ arrived[5] = <<1>> /\ arrived[7] = <<2, 3>>
        /\ event_queues[7] = <<3>>

\* C15: when the reader loop reads the response line for a call whose future
\* is pending, it resolves that future in the same step, whatever other
\* calls are pending in the registry; and a call whose future is resolved
\* eventually resumes (returns or raises) unless its task is cancelled
\* first, however long other calls stay unanswered.
C15_NoHeadOfLineBlocking ==
    /\ [][\A c \in Callers, i \in RespIds, b \in SpecBodies :
            (/\ ReaderResponse(ResponseLine(i, b))
             /\ i \in DOMAIN request_events
             /\ request_events[i] = c
             /\ fut[c] = "pending") => fut'[c] = "done"]_vars
    /\ \A c \in Callers :
            (pc[c] = "awaiting" /\ fut[c] = "done") ~>
                (Resumed(c) \/ pc[c] = "cancelled")

\* C15 witness: the call sent second was answered and has returned while
\* the call sent first is still suspended, unanswered, with the reader
\* running.
C15_Witness ==
    \E c, d \in Callers :
        /\ request_id[c] = 1 /\ pc[c] = "awaiting" /\ fut[c] = "pending"
        /\ request_events = (1 :> c)
        /\ request_id[d] = 2 /\ pc[d] = "returned" /\ resolved[d] = 1
        /\ outcome[d] = [exc |-> "none", value |-> "r1"]
        /\ reader = "running" /\ proc = "alive"

\* C16 as stated: the step in which the reader loop reads a response whose id
\* has no pending entry, or a line that is not JSON, either leaves the reader
\* running, or leaves no call suspended on a pending future.
C16_Orig ==
    [][\A l \in ResponseLines({1, 2}, {EvBody}) \cup {GarbageLine} :
        (/\ ReaderResponse(l) \/ ReaderRaise(l)
         /\ ~l.wf \/ l.id \notin DOMAIN request_events) =>
            \/ reader' = "running"
            \/ \A c \in Callers : ~(pc'[c] = "awaiting" /\ fut'[c] = "pending")]_vars

\* The reader loop reads line l in this step, in whichever branch.
ReaderReads(l) ==
    ReaderResponse(l) \/ ReaderEvent(l) \/ ReaderOther(l) \/ ReaderRaise(l)

\* C17: in the step that reads a JSON object with an "id" member, with or
\* without "method": "event", no queue is created or changed, and when the id
\* has an entry whose future is pending that entry is removed and the future
\* is resolved with the object read.  In the step that reads an object
\* without "id" whose method is "event", params.event is appended to the
\* queue of params.contextId, which is created if absent, and every other
\* queue is as before.  No other line read changes the event queues.
C17_RoutingOrder ==
    [][\A l \in WireLines :
        ReaderReads(l) =>
            /\ (l.wf /\ l.hasId) =>
                /\ event_queues' = event_queues /\ arrived' = arrived
                /\ (l.id \in DOMAIN request_events
                        /\ fut[request_events[l.id]] = "pending") =>
                    /\ l.id \notin DOMAIN request_events'
                    /\ fut'[request_events[l.id]] = "done"
                    /\ response'[request_events[l.id]] = l
            /\ (l.wf /\ ~l.hasId /\ l.method = "event") =>
                /\ DOMAIN event_queues' = DOMAIN event_queues \cup {l.account}
                /\ event_queues'[l.account] =
                        IF l.account \in DOMAIN event_queues
                        THEN Append(event_queues[l.account], l.event)
                        ELSE <<l.event>>
                /\ \A b \in DOMAIN event_queues \ {l.account} :
                        event_queues'[b] = event_queues[b]
            /\ (~l.wf \/ (~l.hasId /\ l.method # "event")) =>
                event_queues' = event_queues]_vars

\* C17 witness: an object with id 1 and method "event" for account 5 was read
\* while call 1 was pending: the call's future holds it, its entry is gone,
\* and account 5 has no queue; the only queue is the one an event without id
\* created for account 7.
C17_Witness ==
    /\ fut[1] = "done" /\ response[1] = IdEventLine(1, 5, 2)
    /\ 1 \notin DOMAIN request_events
    /\ event_queues = (7 :> <<1>>)
    /\ reader = "running"

\* C18: what has been written to the stdin of the current child is a sequence
\* of whole request lines, each with an id the counter has issued and its
\* params, in strictly increasing id order.  Every step in which a call is
\* accepted adds exactly one line, the caller's own, after the lines already
\* written and leaves those as they were; a rejected call, and every other
\* step but start() (which opens the stdin of a new child), writes nothing.
C18_WholeLinesInOrder ==
    /\ [](/\ \A j \in 1..Len(stdin) :
                /\ stdin[j].id \in 1..id
                /\ stdin[j].params \in {"array", "object"}
          /\ \A j \in 1..(Len(stdin) - 1) : stdin[j].id < stdin[j + 1].id
          /\ Len(stdin) <= id)
    /\ [][\A c \in Callers :
            (pc[c] = "idle" /\ pc'[c] = "awaiting") =>
                /\ Len(stdin') = Len(stdin) + 1
                /\ stdin'[Len(stdin')].id = request_id'[c]
                /\ \A j \in 1..Len(stdin) : stdin'[j] = stdin[j]]_vars
    /\ [][(\A c \in Callers : ~(pc[c] = "idle" /\ pc'[c] = "awaiting")) =>
            (stdin' = stdin \/ (lifecycle' = "running" /\ lifecycle # "running"
                                    /\ stdin' = <<>>))]_vars

\* C18 witness: two callers are suspended at once; the one that called first
\* wrote the line with id 1, the other the line with id 2, in that order.
C18_Witness ==
    /\ pc = [c \in Callers |-> "awaiting"]
    /\ request_id[2] = 1 /\ request_id[1] = 2
    /\ stdin = <<[id |-> 1, params |-> "array"], [id |-> 2, params |-> "array"]>>
    /\ request_events = (1 :> 2) @@ (2 :> 1)

\* C19: with a child that answers only requests written to its stdin, in
\* every state (so at every step of the reader loop) each call whose future
\* is pending has its future registered under its own id, each id written to
\* stdin is a key of the registry unless its call's future is resolved or
\* cancelled, and the reader loop has never looked up an id that had no
\* entry.
C19_RegisteredBeforeRead ==
    /\ \A c \in Callers :
            fut[c] = "pending" =>
                /\ request_id[c] \in StdinIds
                /\ request_id[c] \in DOMAIN request_events
                /\ request_events[request_id[c]] = c
    /\ \A i \in StdinIds :
            \/ i \in DOMAIN request_events
            \/ \E c \in Callers : request_id[c] = i /\ fut[c] \in {"done", "cancelled"}
    /\ readerErr # "KeyError_id"

\* C19 witness: both requests were written; the reader has read the
\* response to the second and resolved it, and the first is still pending
\* and registered.
C19_Witness ==
    \E c, d \in Callers :
        /\ StdinIds = {1, 2}
        /\ request_id[c] = 1 /\ fut[c] = "pending" /\ request_events = (1 :> c)
        /\ request_id[d] = 2 /\ fut[d] = "done" /\ response[d].id = 2
        /\ response[d].error = "e1"
        /\ reader = "running"

\* The events buffered for account a: the contents of its queue, if it has one.
Buffered(a) == IF a \in DOMAIN event_queues THEN event_queues[a] ELSE <<>>

\* C20: for every account, the events wait_for_event has returned since
\* start(), to whichever consumers, followed by the events still in the
\* account's queue, are exactly the events enqueued for the account since
\* start(), in the order they were enqueued; no event has been returned
\* twice.
C20_DeliveredOnce ==
    \A a \in Accounts :
        /\ arrived[a] = yielded[a] \o Buffered(a)
        /\ \A j, k \in 1..Len(yielded[a]) : j # k => yielded[a][j] # yielded[a][k]

\* C20 witness: two events were enqueued for account 5 and each was returned
\* once; one consumer is suspended on the account's queue, now empty, and
\* the other is not.
C20_Witness ==
    \E k, m \in Consumers :
        /\ evpc[k] = "waiting" /\ evAcc[k] = 5 /\ evpc[m] = "idle"
        /\ lastWait.acc = 5 /\ lastWait.did = "suspended"
        /\ arrived[5] = <<1, 2>> /\ yielded[5] = <<1, 2>>
        /\ event_queues[5] = <<>>

=============================================================================
